---- MODULE Spec2Model ----
(***************************************************************************)
(* A model of summarize_all_runs.py: the trend estimators, the series      *)
(* builders, the two metric computations and the batch loop of main.       *)
(*                                                                         *)
(* Numbers.  Timestamps and the time options are whole units (the code     *)
(* works in epoch milliseconds, hours and minutes; one model unit is 30 s,  *)
(* so that bin_minutes = 2 is a one-minute bin).  A float that the code computes by division is carried as an   *)
(* exact fraction [nan, num, den].  A missing value (NaN / empty cell) of  *)
(* an input column is the integer NaN, a cell that holds non-numeric text  *)
(* is the integer Junk; every real value of an input is >= 0.              *)
(***************************************************************************)
EXTENDS Integers, Sequences, FiniteSets, TLC

VARIABLES
    pc,        \* which step of the analysis comes next
    y,         \* the sequence handed to mann_kendall_pvalue
    mk,        \* what mann_kendall_pvalue returned
    monitor,   \* the resource-usage file (monitor_results.csv)
    jtl,       \* the request-log file (jmeter_results.jtl)
    opts,      \* the command-line options of the invocation
    mem,       \* what compute_memory_metrics / build_memory_series returned
    lat,       \* what compute_latency_metrics returned
    latByMode, \* what compute_latency_metrics returned under each filter mode
    series,    \* what build_memory_series returned
    clock,     \* the collectors' clock: polling iterations / minutes of load so far
    runs,      \* main: the discovered runs
    idx,       \* main: index of the run the loop is at
    rows,      \* main: the SummaryRow list
    outFile,   \* main: the rows the output path holds
    outExists, \* main: whether the output path exists
    observed,  \* what a reader of the output path saw last
    frame,     \* what read_jmeter_jtl returned
    poll       \* monitor_project: its locals and the log of its iterations

vars == <<pc, y, mk, monitor, jtl, opts, mem, lat, latByMode, series, clock, runs, idx, rows, outFile,
          outExists, observed, frame, poll>>

NaN == 0 - 1
Junk == 0 - 2

\* ---------------------------------------------------------------- bounds
MaxLen == 4        \* longest arbitrary sequence handed to the trend test
MaxVal == 3        \* values of an arbitrary sequence are 1..MaxVal (or NaN)
MaxRamp == 7       \* longest strictly increasing sequence built value by value
MaxRampVal == 8    \* its values are 1..MaxRampVal
MaxSeriesRows == 3 \* rows of a resource table handed to build_memory_series
MaxPolls == 4      \* polling iterations of the monitor before the analysis
MaxBursts == 6     \* minutes of load in the request log before the analysis
MaxLogRows == 2    \* rows of a request log given cell by cell
MaxRuns == 2       \* runs under the test root
MaxClock == 6      \* half-minutes the monitor is followed for

\* ------------------------------------------------------- small arithmetic
Abs(a) == IF a < 0 THEN 0 - a ELSE a

Max2(a, b) == IF a >= b THEN a ELSE b

Sign(d) == IF d > 0 THEN 1 ELSE IF d < 0 THEN 0 - 1 ELSE 0

\* f[lo] + ... + f[hi]
RECURSIVE SumFrom(_, _, _)
SumFrom(f, lo, hi) == IF lo > hi THEN 0 ELSE f[lo] + SumFrom(f, lo + 1, hi)

SumSeq(s) == SumFrom(s, 1, Len(s))

RECURSIVE SumSet(_, _)
SumSet(S, f) ==
    IF S = {} THEN 0
    ELSE LET x == CHOOSE x \in S : TRUE IN f[x] + SumSet(S \ {x}, f)

Range(s) == {s[i] : i \in DOMAIN s}

\* ------------------------------------------------------- trend statistics
\* y = y[~np.isnan(y)]
DropNaN(s) == SelectSeq(s, LAMBDA v : v # NaN)

\* a statistic that compares neighbours only
MKStatisticAdjacent(v) ==
    SumFrom([k \in 1..Len(v) |-> IF k < Len(v) THEN Sign(v[k + 1] - v[k]) ELSE 0], 1, Len(v) - 1)

\* S += np.sign(y[k + 1:] - y[k]).sum()  for k in range(n - 1)
MKStatistic(v) ==
    LET n == Len(v)
        later == [k \in 1..n |-> SumFrom([j \in 1..n |-> Sign(v[j] - v[k])], k + 1, n)]
    IN  SumFrom(later, 1, n - 1)

\* one term of the tie correction, for a value that occurs c times
TieTermBad(c) == c * (c - 1) * (2 * c + 3)

TieTerm(c) == c * (c - 1) * (2 * c + 5)

\* _, counts = np.unique(y, return_counts=True); np.sum(counts*(counts-1)*(2*counts+5))
TieSum(v) ==
    LET vals == Range(v)
        cnt == [u \in vals |-> Cardinality({i \in DOMAIN v : v[i] = u})]
    IN  SumSet(vals, [u \in vals |-> TieTerm(cnt[u])])

\* the result "not computable": float("nan")
MKNaN == [branch |-> "nan", n |-> 0, S |-> 0, tie |-> 0, varNum |-> 0, zNum |-> 0]

\* mann_kendall_pvalue.  varS is varNum / 18 and z is zNum / sqrt(varS); the
\* p-value 2 * (1 - norm.cdf(|z|)) is a strictly decreasing function of |z|,
\* so the record carries zNum and varNum and the comparisons below read p.
mann_kendall_pvalue(yy) ==
    LET v == DropNaN(yy)
        n == Len(v)
        S == MKStatistic(v)
        tie == TieSum(v)
        varNum == n * (n - 1) * (2 * n + 5) - tie
    IN  IF n < 3 THEN MKNaN
        ELSE IF varNum <= 0
             THEN [branch |-> "degenerate", n |-> n, S |-> S, tie |-> tie,
                   varNum |-> varNum, zNum |-> 0]
        ELSE [branch |-> "z", n |-> n, S |-> S, tie |-> tie, varNum |-> varNum,
              zNum |-> IF S > 0 THEN S - 1 ELSE IF S < 0 THEN S + 1 ELSE 0]

\* p is exactly 1.0: the degenerate return, or z = 0.0 (norm.cdf(0) = 0.5)
PIsOne(r) == r.branch = "degenerate" \/ (r.branch = "z" /\ r.zNum = 0)

\* p < 0.01, that is |z| > 2.5758293 (z^2 = 18 zNum^2 / varNum > 6.6348966);
\* the test is z^2 > 6.635, in 32-bit integers
PBelow01(r) ==
    /\ r.branch = "z"
    /\ 18 * r.zNum * r.zNum * 1000 > 6635 * r.varNum

\* p > 0.01: |z| < 2.5758293; the test is z^2 < 6.634
PAbove01(r) ==
    \/ r.branch = "degenerate"
    \/ r.branch = "z" /\ 18 * r.zNum * r.zNum * 1000 < 6634 * r.varNum

\* ------------------------------------------------------------ fractions
RECURSIVE GCD(_, _)
GCD(a, b) == IF b = 0 THEN a ELSE GCD(b, a % b)

FNaN == [nan |-> TRUE, num |-> 0, den |-> 1]

\* the float num / den (den > 0), in lowest terms
Frac(num, den) ==
    LET g == GCD(Abs(num), den)
    IN  [nan |-> FALSE, num |-> num \div g, den |-> den \div g]

\* ------------------------------------------------------- sorting, medians
\* s reordered by ascending key, equal keys keeping their order (a stable
\* sort: what sort_values gives on the short tables of the model)
StableSort(s, key) ==
    LET n == Len(s)
        pos == [i \in 1..n |->
                  1 + Cardinality({j \in 1..n : key[j] < key[i] \/ (key[j] = key[i] /\ j < i)})]
    IN  [p \in 1..n |-> s[CHOOSE i \in 1..n : pos[i] = p]]

SortInts(s) == StableSort(s, s)

SetToSortedSeq(S) ==
    [p \in 1..Cardinality(S) |-> CHOOSE x \in S : Cardinality({z \in S : z < x}) = p - 1]

\* twice np.nanmedian(s), for a non-empty sequence of integers without NaN
Median2(s) ==
    LET t == SortInts(s)
        n == Len(t)
    IN  t[(n + 1) \div 2] + t[(n + 2) \div 2]

\* theil_sen_slope: scipy.stats.theilslopes takes the median of
\* (y[i] - y[j]) / (x[i] - x[j]) over the pairs with x[i] - x[j] > 0; with no
\* such pair the median of nothing is NaN.  yv may be scaled by yscale.
theil_sen_slope(yv, xv, yscale) ==
    LET ok == {i \in DOMAIN yv : yv[i] # NaN /\ xv[i] # NaN}
        P == {p \in ok \X ok : xv[p[1]] - xv[p[2]] > 0}
        num(p) == yv[p[1]] - yv[p[2]]
        den(p) == xv[p[1]] - xv[p[2]]
        m == Cardinality(P)
        below(p) == Cardinality({q \in P : num(q) * den(p) < num(p) * den(q)})
        upto(p) == Cardinality({q \in P : num(q) * den(p) <= num(p) * den(q)})
        kth(k) == CHOOSE p \in P : below(p) < k /\ k <= upto(p)
        lo == kth((m + 1) \div 2)
        hi == kth((m + 2) \div 2)
    IN  IF Cardinality(ok) < 2 \/ m = 0 THEN FNaN
        ELSE Frac(num(lo) * den(hi) + num(hi) * den(lo), 2 * den(lo) * den(hi) * yscale)

\* ------------------------------------------------- the resource-usage file
\* A monitor_results.csv: which columns its header has, and its rows in file
\* order.  A row is [timestamp, scope, container_name, memory_mib]; the field
\* of an absent column is "" and is never read.
MonRow(ts, sc, name, m) ==
    [timestamp |-> ts, scope |-> sc, container_name |-> name, memory_mib |-> m]

MonFile(hasTs, hasScope, hasName, rws) ==
    [hasTimestamp |-> hasTs, hasScope |-> hasScope, hasName |-> hasName, rows |-> rws]

Timestamps(rws) == [i \in DOMAIN rws |-> rws[i].timestamp]

\* read_monitor_csv: ValueError without a timestamp column, else the table
\* sorted by timestamp
read_monitor_csv(f) ==
    IF ~f.hasTimestamp
    THEN [raised |-> "ValueError", df |-> f]
    ELSE [raised |-> "", df |-> [f EXCEPT !.rows = StableSort(f.rows, Timestamps(f.rows))]]

\* proj[["timestamp", "memory_mib"]].dropna()
TsMemDropNa(rws) ==
    LET kept == SelectSeq(rws, LAMBDA r : r.memory_mib # NaN)
    IN  [i \in DOMAIN kept |-> [timestamp |-> kept[i].timestamp, memory_mib |-> kept[i].memory_mib]]

\* df.groupby("timestamp", as_index=False)["memory_mib"].sum(): one row per
\* timestamp in ascending order; sum skips NaN (a group of NaN only sums to 0)
GroupSum(rws) ==
    LET ts == SetToSortedSeq(Range(Timestamps(rws)))
        val(r) == IF r.memory_mib = NaN THEN 0 ELSE r.memory_mib
    IN  [p \in DOMAIN ts |->
            [timestamp |-> ts[p],
             memory_mib |-> SumSeq([i \in DOMAIN rws |->
                                IF rws[i].timestamp = ts[p] THEN val(rws[i]) ELSE 0])]]

HasProjectScope(df) == df.hasScope /\ \E i \in DOMAIN df.rows : df.rows[i].scope = "project"

HasAllName(df) == df.hasName /\ \E i \in DOMAIN df.rows : df.rows[i].container_name = "ALL"

\* a builder that adds the component rows to the whole-run rows
build_memory_series_mixing(df) ==
    IF ~df.hasName
    THEN [raised |-> "ValueError", branch |-> "none", rows |-> <<>>]
    ELSE [raised |-> "", branch |-> IF HasProjectScope(df) THEN "scope"
                                    ELSE IF HasAllName(df) THEN "name" ELSE "sum",
          rows |-> GroupSum(df.rows)]

\* build_memory_series
build_memory_series(df) ==
    IF HasProjectScope(df)
    THEN [raised |-> "", branch |-> "scope",
          rows |-> TsMemDropNa(SelectSeq(df.rows, LAMBDA r : r.scope = "project"))]
    ELSE IF HasAllName(df)
    THEN [raised |-> "", branch |-> "name",
          rows |-> TsMemDropNa(SelectSeq(df.rows, LAMBDA r : r.container_name = "ALL"))]
    ELSE IF ~df.hasName
    THEN [raised |-> "ValueError", branch |-> "none", rows |-> <<>>]
    ELSE [raised |-> "", branch |-> "sum", rows |-> GroupSum(df.rows)]

\* ------------------------------------------------------------- options
\* argparse's options, times in model units
Options(w, es, ee, ld, bm, lf, ms) ==
    [warmup |-> w, early_start |-> es, early_end |-> ee, late_duration |-> ld,
     bin_minutes |-> bm, latency_filter |-> lf, min_samples_per_bin |-> ms]

\* ------------------------------------------------- compute_memory_metrics
MinMemSamples == 3

MemResult(raised, computed, slope, pval, delta, early, late, late_start, tmax, kept) ==
    [raised |-> raised, computed |-> computed, slope |-> slope, pval |-> pval,
     delta |-> delta, early |-> early, late |-> late, late_start |-> late_start,
     tmax |-> tmax, kept |-> kept]

MemRaise(e) == MemResult(e, FALSE, FNaN, MKNaN, FNaN, <<>>, <<>>, 0, 0, <<>>)

\* the largest entry of a non-empty sequence of integers
MaxOf(s) == CHOOSE m \in Range(s) : \A v \in Range(s) : v <= m

\* the late window starts at tmax - late_duration, whatever the warm-up
LateStartNoWarmup(o, tmax) == tmax - o.late_duration

\* late_start = max(warmup_hours, tmax - late_duration_h)
LateStart(o, tmax) == Max2(o.warmup, tmax - o.late_duration)

\* the early window with both ends inclusive
InEarlyClosed(o, t) == t >= o.early_start /\ t <= o.early_end

\* (t >= early_start_h) & (t < early_end_h)
InEarly(o, t) == t >= o.early_start /\ t < o.early_end

\* (t >= late_start) & (t <= tmax)
InLate(o, tmax, t) == t >= LateStart(o, tmax) /\ t <= tmax

\* delta = median(late) - median(early), NaN when a window is empty; the
\* values are scaled by scale
WindowDelta(early, late, scale) ==
    IF Len(early) > 0 /\ Len(late) > 0
    THEN Frac(Median2(late) - Median2(early), 2 * scale)
    ELSE FNaN

compute_memory_metrics(f, o) ==
    LET mon == read_monitor_csv(f)
        built == build_memory_series(mon.df)
        ser == StableSort(built.rows, Timestamps(built.rows))
        t0 == ser[1].timestamp
        all == [i \in DOMAIN ser |-> [t |-> ser[i].timestamp - t0, v |-> ser[i].memory_mib]]
        kept == SelectSeq(all, LAMBDA r : r.t >= o.warmup)
        yv == [i \in DOMAIN kept |-> kept[i].v]
        xv == [i \in DOMAIN kept |-> kept[i].t]
        tmax == MaxOf(xv)
        pick(s) == [i \in DOMAIN s |-> s[i].v]
        early == pick(SelectSeq(kept, LAMBDA r : InEarly(o, r.t)))
        late == pick(SelectSeq(kept, LAMBDA r : InLate(o, tmax, r.t)))
    IN  IF mon.raised # "" THEN MemRaise(mon.raised)
        ELSE IF built.raised # "" THEN MemRaise(built.raised)
        ELSE IF ser = <<>> THEN MemRaise("IndexError")
        ELSE IF Len(kept) < MinMemSamples
             THEN MemResult("", FALSE, FNaN, MKNaN, FNaN, <<>>, <<>>, 0, 0, kept)
        ELSE MemResult("", TRUE, theil_sen_slope(yv, xv, 1), mann_kendall_pvalue(yv),
                       WindowDelta(early, late, 1), early, late, LateStart(o, tmax), tmax, kept)

\* ----------------------------------------------------- the request-log file
\* A jmeter_results.jtl: its encoding, whether it has the three mandatory
\* columns and a responseCode column, and its rows in file order.  A row is
\* [timeStamp, elapsed, success, responseCode]: timeStamp and responseCode a
\* number, NaN (empty) or Junk (other text), elapsed a number or NaN, success
\* the cell's text, stripped and in lower case.
JRow(ts, el, su, rc) == [timeStamp |-> ts, elapsed |-> el, success |-> su, responseCode |-> rc]

JtlFile(fmt, hasMandatory, hasCode, rws) ==
    [fmt |-> fmt, hasMandatory |-> hasMandatory, hasCode |-> hasCode, rows |-> rws]

\* The dtype pd.read_csv gives the responseCode column: integers only make
\* int64, integers with empty cells float64, any other text object (strings);
\* the attributes of the XML form stay strings.
CodeDtype(f) ==
    LET cells == {f.rows[i].responseCode : i \in DOMAIN f.rows}
    IN  IF ~f.hasCode THEN "absent"
        ELSE IF f.fmt = "xml" \/ Junk \in cells \/ cells = {} THEN "object"
        ELSE IF NaN \in cells THEN "float64"
        ELSE "int64"

\* _to_bool
to_bool(v) == v \in {"true", "1", "yes", "y"}

\* pd.to_numeric(..., errors="coerce")
to_numeric(v) == IF v >= 0 THEN v ELSE NaN

\* the casts of the XML form: timeStamp and elapsed to numbers or NaN, success
\* to the bool, kept here as the text _to_bool reads back to the same bool
CastSample(r) ==
    [r EXCEPT !.timeStamp = to_numeric(@), !.elapsed = to_numeric(@),
              !.success = IF to_bool(@) THEN "true" ELSE "false"]

\* a reader that wants at least one row of the CSV form as well
read_jmeter_jtl_nonempty(f) ==
    IF f.fmt = "csv" /\ f.hasMandatory /\ f.rows # <<>>
    THEN [raised |-> "", rows |-> f.rows, codeDtype |-> CodeDtype(f)]
    ELSE [raised |-> "ValueError", rows |-> <<>>, codeDtype |-> "absent"]

\* read_jmeter_jtl: the CSV when it has the mandatory columns, else the XML
\* form, which needs at least one sample node
read_jmeter_jtl(f) ==
    IF f.fmt = "csv" /\ f.hasMandatory
    THEN [raised |-> "", rows |-> f.rows, codeDtype |-> CodeDtype(f)]
    ELSE IF f.fmt = "xml" /\ f.rows # <<>>
    THEN [raised |-> "", rows |-> [i \in DOMAIN f.rows |-> CastSample(f.rows[i])],
          codeDtype |-> CodeDtype(f)]
    ELSE [raised |-> "ValueError", rows |-> <<>>, codeDtype |-> "absent"]

\* a conversion that reads the number whatever the column's dtype
to_int_or_nan_lenient(v, dtype) ==
    IF dtype = "absent" THEN NaN ELSE IF v >= 0 THEN v ELSE NaN

\* _to_int_or_nan, int(str(v).strip()): on an int64 or object column the text
\* of an integer parses; on a float64 column str(v) is "200.0" (or "nan"),
\* which int() rejects; no column gives NaN
to_int_or_nan(v, dtype) ==
    IF dtype \in {"int64", "object"} /\ v >= 0 THEN v ELSE NaN

\* .sort_values("timeStamp"): ascending, unparseable text after the numbers
\* and missing values last
SortByTimeStamp(rws) ==
    LET nums == {rws[i].timeStamp : i \in DOMAIN rws} \cap Nat
        top == IF nums = {} THEN 0 ELSE 1 + MaxOf(SetToSortedSeq(nums))
        key == [i \in DOMAIN rws |->
                  IF rws[i].timeStamp >= 0 THEN rws[i].timeStamp
                  ELSE IF rws[i].timeStamp = Junk THEN top ELSE top + 1]
    IN  StableSort(rws, key)

\* the row as compute_latency_metrics annotates it
Annotate(r, dtype) ==
    [t |-> to_numeric(r.timeStamp), elapsed |-> r.elapsed,
     success_bool |-> to_bool(r.success), resp_int |-> to_int_or_nan(r.responseCode, dtype)]

\* error_mask
IsError(a) == ~a.success_bool \/ a.resp_int >= 400 \/ a.resp_int = NaN

\* the latency subset; "invalid" stands for the ValueError of any other mode
PassesFilter(a, mode) ==
    CASE mode = "all" -> TRUE
      [] mode = "success" -> a.success_bool
      [] mode = "http<400" -> a.success_bool /\ a.resp_int # NaN /\ a.resp_int < 400

\* 20 * quantile(0.95) of a non-empty group, by linear interpolation between
\* the order statistics around position 0.95 * (n - 1)
P95x20(vals) ==
    LET s == SortInts(vals)
        n == Len(s)
        lo == (19 * (n - 1)) \div 20
        r == (19 * (n - 1)) % 20
    IN  IF r = 0 THEN 20 * s[lo + 1] ELSE 20 * s[lo + 1] + r * (s[lo + 2] - s[lo + 1])

\* a bin is kept with more than the minimum of samples
BinRetainedStrict(cnt, o) == cnt > o.min_samples_per_bin

\* cnt[cnt >= min_samples_per_bin]
BinRetained(cnt, o) == cnt >= o.min_samples_per_bin

MinRows == 10

MinBins == 5

LatResult(raised, stage, slope, pval, delta, total_errors, bins, p95, early, late, late_start, tmax, njj) ==
    [raised |-> raised, stage |-> stage, slope |-> slope, pval |-> pval, delta |-> delta,
     total_errors |-> total_errors, bins |-> bins, p95 |-> p95, early |-> early,
     late |-> late, late_start |-> late_start, tmax |-> tmax, njj |-> njj]

LatRaise(e) == LatResult(e, "raised", FNaN, MKNaN, FNaN, 0, <<>>, <<>>, <<>>, <<>>, 0, 0, 0)

LatNaN(stage, errs, njj) ==
    LatResult("", stage, FNaN, MKNaN, FNaN, errs, <<>>, <<>>, <<>>, <<>>, 0, 0, njj)

\* the error count taken over the latency subset
TotalErrorsOfSubset(a, o) ==
    LET timed == SelectSeq(a, LAMBDA r : r.t # NaN /\ r.elapsed # NaN)
        t0 == IF timed = <<>> THEN 0 ELSE timed[1].t
    IN  Cardinality({i \in DOMAIN a : IsError(a[i]) /\ a[i].t # NaN /\ a[i].elapsed # NaN
                        /\ a[i].t - t0 >= o.warmup /\ PassesFilter(a[i], o.latency_filter)})

\* int(error_mask.sum()) over the whole log
TotalErrors(a, o) == Cardinality({i \in DOMAIN a : IsError(a[i])})

compute_latency_metrics(f, o) ==
    LET loaded == read_jmeter_jtl(f)
        j == SortByTimeStamp(loaded.rows)
        a == [i \in DOMAIN j |-> Annotate(j[i], loaded.codeDtype)]
        total_errors == TotalErrors(a, o)
        timed == SelectSeq(a, LAMBDA r : r.t # NaN)
        t0 == timed[1].t
        clean == SelectSeq(a, LAMBDA r : r.t # NaN /\ r.elapsed # NaN)
        warm == SelectSeq(clean, LAMBDA r : r.t - t0 >= o.warmup)
        jj == SelectSeq(warm, LAMBDA r : PassesFilter(r, o.latency_filter))
        binOf(r) == (r.t - t0) \div o.bin_minutes
        allBins == SetToSortedSeq({binOf(jj[i]) : i \in DOMAIN jj})
        group(b) == SelectSeq(jj, LAMBDA r : binOf(r) = b)
        valid == SelectSeq(allBins, LAMBDA b : BinRetained(Len(group(b)), o))
        yv == [k \in DOMAIN valid |-> P95x20([i \in DOMAIN group(valid[k]) |-> group(valid[k])[i].elapsed])]
        xv == [k \in DOMAIN valid |-> valid[k] * o.bin_minutes]
        tmax == MaxOf(xv)
        idxEarly == SelectSeq([k \in DOMAIN xv |-> k], LAMBDA k : InEarly(o, xv[k]))
        idxLate == SelectSeq([k \in DOMAIN xv |-> k], LAMBDA k : InLate(o, tmax, xv[k]))
        early == [i \in DOMAIN idxEarly |-> yv[idxEarly[i]]]
        late == [i \in DOMAIN idxLate |-> yv[idxLate[i]]]
    IN  IF loaded.raised # "" THEN LatRaise(loaded.raised)
        ELSE IF timed = <<>> THEN LatRaise("IndexError")
        ELSE IF Len(warm) < MinRows THEN LatNaN("few_rows", total_errors, Len(warm))
        ELSE IF o.latency_filter \notin {"all", "success", "http<400"} THEN LatRaise("ValueError")
        ELSE IF Len(jj) < MinRows THEN LatNaN("few_filtered", total_errors, Len(jj))
        ELSE IF Len(valid) < MinBins
             THEN LatResult("", "few_bins", FNaN, MKNaN, FNaN, total_errors, xv, yv,
                            <<>>, <<>>, 0, 0, Len(jj))
        ELSE LatResult("", "computed", theil_sen_slope(yv, xv, 20), mann_kendall_pvalue(yv),
                       WindowDelta(early, late, 20), total_errors, xv, yv, early, late,
                       LateStart(o, tmax), tmax, Len(jj))

\* ------------------------------------------------------------ idle values
NoMK == [branch |-> "none", n |-> 0, S |-> 0, tie |-> 0, varNum |-> 0, zNum |-> 0]

NoMem == MemResult("", FALSE, FNaN, NoMK, FNaN, <<>>, <<>>, 0, 0, <<>>)

NoLat == LatResult("", "none", FNaN, NoMK, FNaN, 0, <<>>, <<>>, <<>>, <<>>, 0, 0, 0)

NoOpts == Options(0, 0, 0, 0, 1, "none", 1)

NoSeries == [raised |-> "", branch |-> "none", rows |-> <<>>]

\* the files as their writers create them: a header with every column, no row
NoMonitor == MonFile(TRUE, TRUE, TRUE, <<>>)

NoJtl == JtlFile("csv", TRUE, TRUE, <<>>)

NoFrame == [raised |-> "", rows |-> <<>>, codeDtype |-> "none"]

NoSeen == [exists |-> FALSE, rows |-> <<>>]

\* monitor_project before it is called: duration and end_time (NaN for None),
\* the locals of an iteration, and the log of the run: the containers each
\* iteration listed and read, and for each row of the file the iteration that
\* wrote it and the clock at that moment
NoPoll ==
    [stage |-> "off", duration |-> NaN, end_time |-> NaN, timestamp |-> 0, todo |-> <<>>,
     total_mem |-> 0, listed |-> <<>>, read |-> <<>>, rowIter |-> <<>>, rowAt |-> <<>>]

\* ------------------------------------------------- the trend test, applied
IsStrictlyIncreasing(s) == \A i \in 1..(Len(s) - 1) : s[i] # NaN /\ s[i + 1] # NaN /\ s[i] < s[i + 1]

InitMK ==
    /\ pc = "build"
    /\ y = <<>>
    /\ mk = NoMK
    /\ monitor = NoMonitor /\ jtl = NoJtl /\ opts = NoOpts /\ mem = NoMem /\ lat = NoLat /\ latByMode = <<>>
    /\ outExists = FALSE /\ observed = NoSeen /\ frame = NoFrame /\ poll = NoPoll
    /\ series = NoSeries /\ clock = 0
    /\ runs = <<>> /\ idx = 0 /\ rows = <<>> /\ outFile = <<>>

\* the caller collects one more value (any value, or a missing one)
MKAppend ==
    /\ pc = "build"
    /\ Len(y) < MaxLen
    /\ \E v \in (1..MaxVal) \cup {NaN} : y' = Append(y, v)
    /\ UNCHANGED <<pc, mk, monitor, jtl, opts, mem, lat, latByMode, series, clock, runs, idx, rows, outFile,
                 outExists, observed, frame, poll>>

\* the caller collects a value above every value so far
MKAppendIncreasing ==
    /\ pc = "build"
    /\ Len(y) < MaxRamp
    /\ IsStrictlyIncreasing(y)
    /\ \E v \in 1..MaxRampVal :
          /\ IF y = <<>> THEN TRUE ELSE v > y[Len(y)]
          /\ y' = Append(y, v)
    /\ UNCHANGED <<pc, mk, monitor, jtl, opts, mem, lat, latByMode, series, clock, runs, idx, rows, outFile,
                 outExists, observed, frame, poll>>

\* the spec's example input, y = [1, 2, ..., 20]
MKLoadExample ==
    /\ pc = "build"
    /\ y = <<>>
    /\ y' = [i \in 1..20 |-> i]
    /\ UNCHANGED <<pc, mk, monitor, jtl, opts, mem, lat, latByMode, series, clock, runs, idx, rows, outFile,
                 outExists, observed, frame, poll>>

MKApply ==
    /\ pc = "build"
    /\ mk' = mann_kendall_pvalue(y)
    /\ pc' = "done"
    /\ UNCHANGED <<y, monitor, jtl, opts, mem, lat, latByMode, series, clock, runs, idx, rows, outFile,
                 outExists, observed, frame, poll>>

NextMK == MKAppend \/ MKAppendIncreasing \/ MKLoadExample \/ MKApply

SpecMK == InitMK /\ [][NextMK]_vars

ValidCount == Len(DropNaN(y))

IsConstant(s) == \A i, j \in DOMAIN s : s[i] = s[j]

\* C7: for every constant sequence of at least 3 valid values the tie term
\* equals n(n-1)(2n+5), the corrected variance is not positive, the degenerate
\* branch is taken and p is 1.0; with fewer than 3 valid values the result is NaN.
C7_ConstantIsOne ==
    pc = "done" =>
        /\ (ValidCount >= 3 /\ IsConstant(DropNaN(y))) =>
              /\ mk.branch = "degenerate"
              /\ mk.tie = ValidCount * (ValidCount - 1) * (2 * ValidCount + 5)
              /\ mk.varNum <= 0
              /\ PIsOne(mk)
        /\ ValidCount < 3 <=> mk.branch = "nan"

C7_Witness ==
    /\ pc = "done"
    /\ Len(y) = 4 /\ ValidCount = 3 /\ IsConstant(DropNaN(y))
    /\ mk.branch = "degenerate"

\* C8 as stated: every strictly increasing sequence without ties (long enough
\* for the test to be computable) gets p < 0.01.
C8_Original ==
    (pc = "done" /\ ValidCount = Len(y) /\ Len(y) >= 3 /\ IsStrictlyIncreasing(y))
        => PBelow01(mk)

\* C8 amended: for a strictly increasing sequence of n valid values S is
\* n(n-1)/2, the tie term is zero, the variance is n(n-1)(2n+5)/18 and
\* z = (S-1)/sqrt(var); p < 0.01 exactly when n >= 6 (for n = 3, 4, 5 p > 0.01).
C8_IncreasingSignificantFromSix ==
    (pc = "done" /\ ValidCount = Len(y) /\ Len(y) >= 3 /\ IsStrictlyIncreasing(y)) =>
        /\ mk.branch = "z"
        /\ 2 * mk.S = Len(y) * (Len(y) - 1)
        /\ mk.tie = 0
        /\ mk.varNum = Len(y) * (Len(y) - 1) * (2 * Len(y) + 5)
        /\ mk.zNum = mk.S - 1
        /\ Len(y) >= 6 => PBelow01(mk)
        /\ Len(y) < 6 => PAbove01(mk)

C8_Witness ==
    /\ pc = "done"
    /\ y = [i \in 1..20 |-> i]
    /\ PBelow01(mk)

\* --------------------------------------- build_memory_series, applied
TsCells == {0, 1}

MemCells == {NaN, 1, 2}

InitSeries ==
    /\ pc = "build"
    /\ \E hs \in BOOLEAN, hn \in BOOLEAN : monitor = MonFile(TRUE, hs, hn, <<>>)
    /\ series = NoSeries
    /\ y = <<>> /\ mk = NoMK /\ jtl = NoJtl /\ opts = NoOpts /\ mem = NoMem /\ lat = NoLat /\ latByMode = <<>>
    /\ outExists = FALSE /\ observed = NoSeen /\ frame = NoFrame /\ poll = NoPoll
    /\ clock = 0
    /\ runs = <<>> /\ idx = 0 /\ rows = <<>> /\ outFile = <<>>

\* one more line of the file, in any order of time
SeriesAppendRow ==
    /\ pc = "build"
    /\ Len(monitor.rows) < MaxSeriesRows
    /\ \E ts \in TsCells, m \in MemCells,
          sc \in (IF monitor.hasScope THEN {"project", "container"} ELSE {""}),
          nm \in (IF monitor.hasName THEN {"ALL", "web"} ELSE {""}) :
          monitor' = [monitor EXCEPT !.rows = Append(@, MonRow(ts, sc, nm, m))]
    /\ UNCHANGED <<pc, y, mk, jtl, opts, mem, lat, latByMode, series, clock, runs, idx, rows, outFile,
                 outExists, observed, frame, poll>>

SeriesBuild ==
    /\ pc = "build"
    /\ series' = build_memory_series(read_monitor_csv(monitor).df)
    /\ pc' = "done"
    /\ UNCHANGED <<y, mk, monitor, jtl, opts, mem, lat, latByMode, clock, runs, idx, rows, outFile,
                 outExists, observed, frame, poll>>

NextSeries == SeriesAppendRow \/ SeriesBuild

SpecSeries == InitSeries /\ [][NextSeries]_vars

\* the rows of the file carrying a tag, and how often a (timestamp, memory)
\* value occurs among rows
ProjectRows == SelectSeq(monitor.rows, LAMBDA r : monitor.hasScope /\ r.scope = "project")

AllRows == SelectSeq(monitor.rows, LAMBDA r : monitor.hasName /\ r.container_name = "ALL")

Occurs(rws, ts, m) == Cardinality({i \in DOMAIN rws : rws[i].timestamp = ts /\ rws[i].memory_mib = m})

\* the result holds the (timestamp, memory) values of rws that have a memory, and nothing else
ExactlyValuesOf(rws) ==
    /\ series.raised = ""
    /\ \A ts \in TsCells : Occurs(series.rows, ts, NaN) = 0
    /\ \A ts \in TsCells, m \in MemCells \ {NaN} : Occurs(series.rows, ts, m) = Occurs(rws, ts, m)
    /\ Len(series.rows) = Cardinality({i \in DOMAIN rws : rws[i].memory_mib # NaN})

\* the result is one row per timestamp of the file, holding the sum over all its rows
PerTimestampSum ==
    /\ series.raised = ""
    /\ \A ts \in TsCells :
          LET at == {i \in DOMAIN monitor.rows : monitor.rows[i].timestamp = ts}
              got == {j \in DOMAIN series.rows : series.rows[j].timestamp = ts}
              tot == SumSeq([i \in DOMAIN monitor.rows |->
                        IF i \in at /\ monitor.rows[i].memory_mib # NaN
                        THEN monitor.rows[i].memory_mib ELSE 0])
          IN  IF at = {} THEN got = {}
              ELSE Cardinality(got) = 1 /\ \A j \in got : series.rows[j].memory_mib = tot

OptSet ==
    {Options(0, 2, 6, 4, 2, m, 2) : m \in {"all", "success", "http<400"}}
    \cup {Options(1, 10, 12, 20, 2, m, 2) : m \in {"all", "success", "http<400"}}

\* what docker ps lists in one polling iteration, and what docker stats
\* reports for a container whose stats can be read
Listings == {<<>>, <<"web">>, <<"web", "db">>}

Reading == [web |-> 1, db |-> 2]

\* one iteration of monitor_project's loop at time clock: no row when no
\* container is listed; else a scope="container" row per container whose
\* stats were read, then the scope="project" row with their total
PollRows(listed, read, now) ==
    LET seen == SelectSeq(listed, LAMBDA c : c \in read)
        total == SumSeq([i \in DOMAIN seen |-> Reading[seen[i]]])
    IN  IF listed = <<>> THEN <<>>
        ELSE [i \in DOMAIN seen |-> MonRow(now, "container", seen[i], Reading[seen[i]])]
             \o <<MonRow(now, "project", "ALL", total)>>

\* the requests of one minute of load, each [off, elapsed, success,
\* responseCode] with off the half-minute of the request: two served requests
\* (the second slower as the run ages), one served request, a served and a
\* failed request, or two rate-limited requests
Bursts(now) ==
    { << [off |-> 0, elapsed |-> 1, success |-> "true", code |-> 200],
         [off |-> 1, elapsed |-> 1 + now, success |-> "true", code |-> 200] >>,
      << [off |-> 1, elapsed |-> 2, success |-> "true", code |-> 200] >>,
      << [off |-> 0, elapsed |-> 1, success |-> "true", code |-> 200],
         [off |-> 1, elapsed |-> 3, success |-> "false", code |-> 500] >>,
      << [off |-> 0, elapsed |-> 1, success |-> "true", code |-> 429],
         [off |-> 1, elapsed |-> 1, success |-> "true", code |-> 429] >> }

InitMetrics ==
    /\ pc \in {"monitor", "jtl"}
    /\ monitor = NoMonitor
    /\ jtl = NoJtl
    /\ opts = NoOpts /\ mem = NoMem /\ lat = NoLat /\ latByMode = <<>>
    /\ outExists = FALSE /\ observed = NoSeen /\ frame = NoFrame /\ poll = NoPoll
    /\ clock = 0
    /\ y = <<>> /\ mk = NoMK /\ series = NoSeries
    /\ runs = <<>> /\ idx = 0 /\ rows = <<>> /\ outFile = <<>>

MonitorPoll ==
    /\ pc = "monitor"
    /\ clock < MaxPolls
    /\ \E listed \in Listings : \E read \in SUBSET Range(listed) :
          monitor' = [monitor EXCEPT !.rows = @ \o PollRows(listed, read, clock)]
    /\ clock' = clock + 1
    /\ UNCHANGED <<pc, y, mk, jtl, opts, mem, lat, latByMode, series, runs, idx, rows, outFile,
                 outExists, observed, frame, poll>>

ComputeMemory ==
    /\ pc = "monitor"
    /\ \E o \in OptSet :
          /\ o.latency_filter = "http<400"
          /\ opts' = o
          /\ mem' = compute_memory_metrics(monitor, o)
    /\ pc' = "done"
    /\ UNCHANGED <<y, mk, monitor, jtl, lat, latByMode, series, clock, runs, idx, rows, outFile,
                 outExists, observed, frame, poll>>

JtlBurst ==
    /\ pc = "jtl"
    /\ clock < MaxBursts
    /\ \E b \in Bursts(clock) :
          jtl' = [jtl EXCEPT !.rows = @ \o
                    [i \in DOMAIN b |-> JRow(2 * clock + b[i].off, b[i].elapsed,
                                             b[i].success, b[i].code)]]
    /\ clock' = clock + 1
    /\ UNCHANGED <<pc, y, mk, monitor, opts, mem, lat, latByMode, series, runs, idx, rows, outFile,
                 outExists, observed, frame, poll>>

ComputeLatency ==
    /\ pc = "jtl"
    /\ \E o \in OptSet :
          /\ opts' = o
          /\ lat' = compute_latency_metrics(jtl, o)
    /\ pc' = "done"
    /\ UNCHANGED <<y, mk, monitor, jtl, mem, latByMode, series, clock, runs, idx, rows, outFile,
                 outExists, observed, frame, poll>>

NextMetrics == MonitorPoll \/ ComputeMemory \/ JtlBurst \/ ComputeLatency

SpecMetrics == InitMetrics /\ [][NextMetrics]_vars

Modes == {"all", "success", "http<400"}

\* the same invocation under each of the three filter modes
ComputeLatencyEachMode ==
    /\ pc = "jtl"
    /\ \E o \in OptSet :
          /\ o.latency_filter = "http<400"
          /\ opts' = o
          /\ latByMode' = [m \in Modes |->
                             compute_latency_metrics(jtl, [o EXCEPT !.latency_filter = m])]
    /\ pc' = "done"
    /\ UNCHANGED <<y, mk, monitor, jtl, mem, lat, series, clock, runs, idx, rows, outFile,
                 outExists, observed, frame, poll>>

InitModes == InitMetrics /\ pc = "jtl"

NextModes == JtlBurst \/ ComputeLatencyEachMode

SpecModes == InitModes /\ [][NextModes]_vars

\* the file's rows that count as errors by the cells themselves: success flag
\* not true, or a status code >= 400, or no parseable status code
CellIsError(r) ==
    \/ ~(r.success \in {"true", "1", "yes", "y"})
    \/ ~jtl.hasCode
    \/ r.responseCode < 0
    \/ r.responseCode >= 400

CellErrors == Cardinality({i \in DOMAIN jtl.rows : CellIsError(jtl.rows[i])})

\* C2: with the other options equal, every two latency-filter modes report the
\* same total_errors (and raise alike), whichever return path each takes; the
\* count is at most one per request.
C2_ErrorsIndependentOfFilter ==
    pc = "done" =>
        \A m1, m2 \in Modes :
            /\ latByMode[m1].total_errors = latByMode[m2].total_errors
            /\ latByMode[m1].raised = latByMode[m2].raised
            /\ latByMode[m1].total_errors <= Len(jtl.rows)

\* a log with a failed and two rate-limited requests, on which the mode "all"
\* ran to the end and the default mode returned early for want of rows
C2_Witness ==
    /\ pc = "done"
    /\ latByMode["all"].stage = "computed"
    /\ latByMode["http<400"].stage = "few_filtered"
    /\ latByMode["http<400"].total_errors = 3
    /\ \E i \in DOMAIN jtl.rows : jtl.rows[i].success = "false" /\ jtl.rows[i].responseCode = 500

\* ---- the request log read directly: which rows the analysis is about
ParsedTimes == {jtl.rows[i].timeStamp : i \in DOMAIN jtl.rows} \cap Nat

\* the time of the first request
FirstTime == CHOOSE t \in ParsedTimes : \A u \in ParsedTimes : t <= u

CellPasses(r, mode) ==
    \/ mode = "all"
    \/ mode = "success" /\ r.success = "true"
    \/ mode = "http<400" /\ r.success = "true" /\ r.responseCode \in 0..399

\* the rows after the warm-up cutoff that the filter mode keeps
FilteredRows ==
    {i \in DOMAIN jtl.rows :
        /\ jtl.rows[i].timeStamp >= 0 /\ jtl.rows[i].elapsed >= 0
        /\ jtl.rows[i].timeStamp - FirstTime >= opts.warmup
        /\ CellPasses(jtl.rows[i], opts.latency_filter)}

CountInBin(b) ==
    Cardinality({i \in FilteredRows : (jtl.rows[i].timeStamp - FirstTime) \div opts.bin_minutes = b})

BinInSeries(b) == \E k \in DOMAIN lat.bins : lat.bins[k] = b * opts.bin_minutes

Binned == pc = "done" /\ lat.stage \in {"few_bins", "computed"}

\* C4: a bin is in the p95 series iff it holds at least min_samples_per_bin
\* filtered requests; the series has one point per retained bin and no other
\* point, and that series is what the significance test receives.
C4_BinRetainedIffMinSamples ==
    Binned =>
        /\ \A b \in 0..(2 * clock) : BinInSeries(b) <=> CountInBin(b) >= opts.min_samples_per_bin
        /\ \A k \in DOMAIN lat.bins : \E b \in 0..(2 * clock) : lat.bins[k] = b * opts.bin_minutes
        /\ Cardinality(Range(lat.bins)) = Len(lat.bins)
        /\ Len(lat.p95) = Len(lat.bins)
        /\ lat.stage = "computed" => lat.pval.n = Len(lat.bins)

\* a finished analysis with a bin of exactly min - 1 samples (dropped) and a
\* bin of exactly min samples (retained)
C4_Witness ==
    /\ pc = "done"
    /\ lat.stage = "computed"
    /\ \E b1, b2 \in 0..(2 * clock) :
          /\ CountInBin(b1) = opts.min_samples_per_bin - 1 /\ ~BinInSeries(b1)
          /\ CountInBin(b2) = opts.min_samples_per_bin /\ BinInSeries(b2)

\* C6 as stated: on a well-formed input neither metric computation raises;
\* too little data gives undefined values.
C6_NeverRaises ==
    pc = "done" => mem.raised = "" /\ lat.raised = ""

\* ---- the windows, read off the retained samples
Picked(ts, vs, Keep(_)) ==
    LET ks == SelectSeq([k \in DOMAIN ts |-> k], Keep)
    IN  [i \in DOMAIN ks |-> vs[ks[i]]]

WindowsAsClaimed(ts, vs, res, scale) ==
    LET tmax == ts[Len(ts)]
        start == IF opts.warmup >= tmax - opts.late_duration
                 THEN opts.warmup ELSE tmax - opts.late_duration
        e == Picked(ts, vs, LAMBDA k : opts.early_start <= ts[k] /\ ts[k] < opts.early_end)
        l == Picked(ts, vs, LAMBDA k : start <= ts[k] /\ ts[k] <= tmax)
    IN  /\ \A k \in DOMAIN ts : ts[k] <= tmax
        /\ res.tmax = tmax
        /\ res.late_start = start /\ res.late_start >= opts.warmup
        /\ res.early = e /\ res.late = l
        /\ res.delta.nan <=> (e = <<>> \/ l = <<>>)
        /\ ~res.delta.nan =>
              res.delta.num * (2 * scale) = (Median2(l) - Median2(e)) * res.delta.den

\* C9: in both computations the late window is [max(warmup, tmax - late_duration),
\* tmax] with tmax the time of the last retained sample or bin, the early window
\* is [early_start, early_end), and the delta is NaN exactly when a window is
\* empty, else median(late) - median(early).
C9_Windows ==
    /\ (pc = "done" /\ mem.computed) =>
          WindowsAsClaimed([i \in DOMAIN mem.kept |-> mem.kept[i].t],
                           [i \in DOMAIN mem.kept |-> mem.kept[i].v], mem, 1)
    /\ (pc = "done" /\ lat.stage = "computed") =>
          WindowsAsClaimed(lat.bins, lat.p95, lat, 20)

\* the late window starts at the warm-up cutoff (tmax - late_duration lies
\* before it), the early window has a bin, and the delta is defined
C9_Witness ==
    /\ pc = "done"
    /\ lat.stage = "computed"
    /\ opts.warmup > 0
    /\ lat.late_start = opts.warmup
    /\ lat.tmax - opts.late_duration < opts.warmup
    /\ lat.early # <<>>
    /\ ~lat.delta.nan

\* C10 as stated: with fewer than 10 filtered rows after the warm-up cutoff the
\* three trend values are NaN and total_errors is returned, counted over the
\* whole log; with 10 or more the function goes on to binning.
C10_FewFilteredRows ==
    (pc = "done" /\ lat.stage # "none") =>
        IF Cardinality(FilteredRows) < MinRows
        THEN /\ lat.raised = ""
             /\ lat.stage \in {"few_rows", "few_filtered"}
             /\ lat.slope.nan /\ lat.pval.branch = "nan" /\ lat.delta.nan
             /\ lat.total_errors = CellErrors
        ELSE lat.stage \in {"few_bins", "computed"}

\* the same, for the logs on which the function returns
C10_FewFilteredRowsUnlessRaised ==
    lat.raised = "" => C10_FewFilteredRows

\* ------------------------------- request logs given cell by cell
TimeCells == {0, Junk}

ElapsedCells == {1, NaN}

SuccessCells == {"true", "false", ""}

CodeCells == {200, 404, NaN, Junk}

InitCells ==
    /\ pc = "jtl"
    /\ jtl \in {JtlFile("csv", TRUE, TRUE, <<>>), JtlFile("csv", TRUE, FALSE, <<>>),
                JtlFile("xml", TRUE, TRUE, <<>>)}
    /\ monitor = NoMonitor
    /\ opts = NoOpts /\ mem = NoMem /\ lat = NoLat /\ latByMode = <<>>
    /\ outExists = FALSE /\ observed = NoSeen /\ frame = NoFrame /\ poll = NoPoll
    /\ clock = 0
    /\ y = <<>> /\ mk = NoMK /\ series = NoSeries
    /\ runs = <<>> /\ idx = 0 /\ rows = <<>> /\ outFile = <<>>

\* one more sample of the log, any cell of it empty or unparseable
JtlAppendRow ==
    /\ pc = "jtl"
    /\ Len(jtl.rows) < MaxLogRows
    /\ \E ts \in TimeCells, el \in ElapsedCells, su \in SuccessCells,
          rc \in (IF jtl.hasCode THEN CodeCells ELSE {NaN}) :
          jtl' = [jtl EXCEPT !.rows = Append(@, JRow(ts, el, su, rc))]
    /\ UNCHANGED <<pc, y, mk, monitor, opts, mem, lat, latByMode, series, clock, runs, idx, rows, outFile,
                 outExists, observed, frame, poll>>

NextCells == JtlAppendRow \/ ComputeLatency

SpecCells == InitCells /\ [][NextCells]_vars

\* C3 as stated: total_errors is the number of rows whose success flag is false,
\* or whose status code is >= 400, or whose status code is missing or
\* unparseable (every row when there is no status-code column).
C3_ErrorCount ==
    (pc = "done" /\ lat.raised = "") => lat.total_errors = CellErrors

\* the same, for the logs whose responseCode column pandas does not read as
\* float64
C3_ErrorCountUnlessFloatColumn ==
    (pc = "done" /\ lat.raised = "" /\ CodeDtype(jtl) # "float64") => lat.total_errors = CellErrors

\* ---------------------------------------------------------------- main
Run(name, mfile, jfile) == [app_name |-> name, monitor_path |-> mfile, jmeter_path |-> jfile]

SummaryRow(name, m, l) ==
    [app_name |-> name,
     memory_slope_mib_per_hour |-> m.slope, memory_mk_pvalue |-> m.pval,
     p95_slope_ms_per_hour |-> l.slope, p95_mk_pvalue |-> l.pval,
     delta_memory_early_late |-> m.delta, delta_p95_early_late |-> l.delta,
     total_errors |-> l.total_errors]

\* the monitor's file after n polling iterations that each read one container
PolledFile(n) ==
    [NoMonitor EXCEPT !.rows =
        [i \in 1..(2 * n) |-> IF i % 2 = 1 THEN MonRow((i - 1) \div 2, "container", "web", (i + 1) \div 2)
                              ELSE MonRow((i - 1) \div 2, "project", "ALL", i \div 2)]]

\* the request log after n minutes of two served requests each
ServedLog(n) ==
    [NoJtl EXCEPT !.rows = [i \in 1..(2 * n) |-> JRow(i - 1, 1 + ((i - 1) % 2), "true", 200)]]

\* the files a run's Output directory may hold: a complete one, one too short
\* for the trend, one without a mandatory column
MonitorFiles == {PolledFile(4), PolledFile(2), MonFile(FALSE, TRUE, TRUE, PolledFile(4).rows)}

JtlFiles == {ServedLog(6), ServedLog(1), JtlFile("csv", FALSE, TRUE, ServedLog(6).rows)}

\* the parsed command line: windows short enough for the files above,
\* --latency-filter at its default
args == Options(0, 2, 6, 4, 2, "http<400", 2)

\* what an earlier invocation left at the output path
PreviousTable == <<SummaryRow(0, NoMem, NoLat)>>

\* df of line 492: the rows sorted by app_name
SortedTable == StableSort(rows, [i \in DOMAIN rows |-> rows[i].app_name])

InitMain ==
    /\ pc = "discover"
    /\ \E n \in 0..MaxRuns : \E fs \in [1..n -> MonitorFiles \X JtlFiles] :
          runs = [i \in 1..n |-> Run(i, fs[i][1], fs[i][2])]
    /\ opts = args
    /\ idx = 1 /\ rows = <<>>
    /\ \/ outExists = FALSE /\ outFile = <<>>
       \/ outExists = TRUE /\ outFile = PreviousTable
    /\ observed = NoSeen
    /\ monitor = NoMonitor /\ jtl = NoJtl /\ mem = NoMem /\ lat = NoLat /\ latByMode = <<>>
    /\ frame = NoFrame /\ poll = NoPoll
    /\ clock = 0 /\ y = <<>> /\ mk = NoMK /\ series = NoSeries

\* discover_runs found nothing: SystemExit; else the loop starts
MainDiscover ==
    /\ pc = "discover"
    /\ pc' = IF runs = <<>> THEN "fatal" ELSE "loop"
    /\ UNCHANGED <<y, mk, monitor, jtl, opts, mem, lat, latByMode, series, clock, runs, idx, rows, outFile,
                 outExists, observed, frame, poll>>

\* one iteration of the loop over runs: both computations, then the row; an
\* exception of either computation is not caught and ends the process
MainProcessRun ==
    /\ pc = "loop"
    /\ idx <= Len(runs)
    /\ monitor' = runs[idx].monitor_path
    /\ jtl' = runs[idx].jmeter_path
    /\ mem' = compute_memory_metrics(monitor', opts)
    /\ lat' = IF mem'.raised # "" THEN lat ELSE compute_latency_metrics(jtl', opts)
    /\ pc' = IF mem'.raised # "" \/ lat'.raised # "" THEN "crashed" ELSE "loop"
    /\ rows' = IF pc' = "crashed" THEN rows
                ELSE Append(rows, SummaryRow(runs[idx].app_name, mem', lat'))
    /\ idx' = IF pc' = "crashed" THEN idx ELSE idx + 1
    /\ UNCHANGED <<y, mk, opts, latByMode, series, clock, runs, outFile,
                 outExists, observed, frame, poll>>

\* after the loop: df.to_csv opens the output path for writing, which
\* creates it or empties what it held
MainOpen ==
    /\ pc = "loop"
    /\ idx > Len(runs)
    /\ outExists' = TRUE
    /\ outFile' = <<>>
    /\ pc' = "writing"
    /\ UNCHANGED <<y, mk, monitor, jtl, opts, mem, lat, latByMode, series, clock, runs, idx, rows,
                   observed, frame, poll>>

\* the rows reach the file in the order of the table, as many at a time as
\* the buffer of the handle lets through
MainWrite ==
    /\ pc = "writing"
    /\ Len(outFile) < Len(rows)
    /\ \E k \in (Len(outFile) + 1)..Len(rows) : outFile' = SubSeq(SortedTable, 1, k)
    /\ UNCHANGED <<pc, y, mk, monitor, jtl, opts, mem, lat, latByMode, series, clock, runs, idx, rows,
                   outExists, observed, frame, poll>>

\* to_csv returns with every row written; main returns 0
MainClose ==
    /\ pc = "writing"
    /\ Len(outFile) = Len(rows)
    /\ pc' = "exit0"
    /\ UNCHANGED <<y, mk, monitor, jtl, opts, mem, lat, latByMode, series, clock, runs, idx, rows,
                   outFile, outExists, observed, frame, poll>>

\* another process reads the output path while main runs or after it
ReaderObserve ==
    /\ pc \in {"discover", "loop", "writing", "exit0"}
    /\ observed' = [exists |-> outExists, rows |-> outFile]
    /\ observed' # observed
    /\ UNCHANGED <<pc, y, mk, monitor, jtl, opts, mem, lat, latByMode, series, clock, runs, idx, rows,
                   outFile, outExists, frame, poll>>

NextMain == MainDiscover \/ MainProcessRun \/ MainOpen \/ MainWrite \/ MainClose \/ ReaderObserve

SpecMain == InitMain /\ [][NextMain]_vars

MonitorDataError(r) == ~r.monitor_path.hasTimestamp

JtlDataError(r) == ~r.jmeter_path.hasMandatory

\* C5 as stated: when a run's resource table or request log lacks a mandatory
\* column, main still ends with one row per discovered run, the faulty run's
\* affected metric set undefined and nothing else lost.
C5_DataErrorKeepsBatch ==
    (pc \in {"crashed", "exit0"}
        /\ \E i \in DOMAIN runs : MonitorDataError(runs[i]) \/ JtlDataError(runs[i])) =>
        /\ pc = "exit0"
        /\ Len(outFile) = Len(runs)
        /\ \A i \in DOMAIN runs : \E k \in DOMAIN outFile :
              /\ outFile[k].app_name = i
              /\ (MonitorDataError(runs[i]) => outFile[k].memory_slope_mib_per_hour.nan)
              /\ (JtlDataError(runs[i]) => outFile[k].p95_slope_ms_per_hour.nan)

\* ------------------------------------------------- read_jmeter_jtl alone
\* the cells of a sample in the files handed to the reader
ReadCodeCells == {200, NaN}

\* a file in the CSV form with or without the mandatory columns, in the XML
\* form, or in neither form (pd.read_csv and ET.parse both fail on it)
InitRead ==
    /\ pc = "read"
    /\ jtl \in {JtlFile("csv", TRUE, TRUE, <<>>), JtlFile("csv", FALSE, TRUE, <<>>),
                JtlFile("xml", FALSE, TRUE, <<>>), JtlFile("neither", FALSE, FALSE, <<>>)}
    /\ monitor = NoMonitor
    /\ opts = NoOpts /\ mem = NoMem /\ lat = NoLat /\ latByMode = <<>>
    /\ outExists = FALSE /\ observed = NoSeen /\ frame = NoFrame /\ poll = NoPoll
    /\ clock = 0
    /\ y = <<>> /\ mk = NoMK /\ series = NoSeries
    /\ runs = <<>> /\ idx = 0 /\ rows = <<>> /\ outFile = <<>>

\* one more row (CSV) or sample element (XML) in the file
ReadAppendSample ==
    /\ pc = "read"
    /\ jtl.fmt \in {"csv", "xml"}
    /\ Len(jtl.rows) < MaxLogRows
    /\ \E ts \in TimeCells, el \in ElapsedCells, su \in SuccessCells, rc \in ReadCodeCells :
          jtl' = [jtl EXCEPT !.rows = Append(@, JRow(ts, el, su, rc))]
    /\ UNCHANGED <<pc, y, mk, monitor, opts, mem, lat, latByMode, series, clock, runs, idx, rows,
                   outFile, outExists, observed, frame, poll>>

ReadJtl ==
    /\ pc = "read"
    /\ frame' = read_jmeter_jtl(jtl)
    /\ pc' = "done"
    /\ UNCHANGED <<y, mk, monitor, jtl, opts, mem, lat, latByMode, series, clock, runs, idx, rows,
                   outFile, outExists, observed, poll>>

NextRead == ReadAppendSample \/ ReadJtl

SpecRead == InitRead /\ [][NextRead]_vars

\* the CSV attempt yields the three mandatory fields
CsvYields(f) == f.fmt = "csv" /\ f.hasMandatory

\* the XML form yields at least one httpSample/sample element
XmlYields(f) == f.fmt = "xml" /\ f.rows # <<>>

IsNumber(v) == v \in Nat

\* C11: a CSV with the three mandatory columns is returned as read_csv gave
\* it; otherwise an XML file with at least one sample element loads, sample
\* by sample, with an unparseable timeStamp or elapsed attribute missing; a
\* ValueError is raised only when the CSV attempt lacks a mandatory field
\* and the XML form yields no sample.
C11_CsvFirstThenXml ==
    pc = "done" =>
        /\ CsvYields(jtl) => (frame.raised = "" /\ frame.rows = jtl.rows)
        /\ (~CsvYields(jtl) /\ XmlYields(jtl)) =>
              /\ frame.raised = ""
              /\ Len(frame.rows) = Len(jtl.rows)
              /\ \A i \in DOMAIN jtl.rows :
                    /\ frame.rows[i].timeStamp =
                          (IF IsNumber(jtl.rows[i].timeStamp) THEN jtl.rows[i].timeStamp ELSE NaN)
                    /\ frame.rows[i].elapsed =
                          (IF IsNumber(jtl.rows[i].elapsed) THEN jtl.rows[i].elapsed ELSE NaN)
                    /\ frame.rows[i].responseCode = jtl.rows[i].responseCode
        /\ frame.raised # "" => (~CsvYields(jtl) /\ ~XmlYields(jtl))

\* an XML file with a sample whose ts attribute is not a number has been
\* loaded, and a header-only CSV has been returned as it is
C11_Witness ==
    /\ pc = "done"
    /\ frame.raised = ""
    /\ jtl.fmt = "xml"
    /\ \E i \in DOMAIN jtl.rows : jtl.rows[i].timeStamp = Junk /\ frame.rows[i].timeStamp = NaN

\* ------------------------------------- the canonical series, per timestamp
\* how many rows of rws carry the timestamp ts
RowsAt(rws, ts) == Cardinality({i \in DOMAIN rws : rws[i].timestamp = ts})

\* C13 as stated: the series build_memory_series returns has exactly one
\* value for every timestamp the file holds, and none for any other, in each
\* of the three branches.
C13_OnePerTimestamp ==
    (pc = "done" /\ series.raised = "") =>
        \A ts \in TsCells :
            RowsAt(series.rows, ts) = (IF RowsAt(monitor.rows, ts) > 0 THEN 1 ELSE 0)

\* the same, for the files the third branch (the per-timestamp sum) handles
C13_OnePerTimestampWhenSummed ==
    (pc = "done" /\ series.raised = "" /\ series.branch = "sum") =>
        \A ts \in TsCells :
            RowsAt(series.rows, ts) = (IF RowsAt(monitor.rows, ts) > 0 THEN 1 ELSE 0)

\* ------------------------------------------- the output path and its reader
\* the table of this invocation, complete
CompleteTable == runs # <<>> /\ Len(rows) = Len(runs)

\* C12 as stated: whoever reads the output path sees no file, the content an
\* earlier invocation left, or the complete new table, and never anything
\* between; main returns 0 only with the complete table in the file.
C12_NoPartialTable ==
    /\ \/ observed = NoSeen
       \/ observed = [exists |-> TRUE, rows |-> PreviousTable]
       \/ CompleteTable /\ observed = [exists |-> TRUE, rows |-> SortedTable]
    /\ pc = "exit0" => (CompleteTable /\ outExists /\ outFile = SortedTable)

\* the part about main's return alone: at exit 0 the file holds the complete table
C12_CompleteAtExit ==
    pc = "exit0" => (CompleteTable /\ outExists /\ outFile = SortedTable)

\* --------------------------------------------------------- monitor_project
\* --interval at its default and the buffer added to the duration, 60 s each,
\* in half-minutes
DEFAULT_INTERVAL == 2

DurationBuffer == 2

\* --duration: omitted, 0 or one minute
Durations == {NaN, 0, 2}

\* what one docker stats call gives: the JSON of a running container, nothing
\* (get_container_stats returned None), or the JSON of a container that has
\* just stopped, whose fields read "--"
StatsOutcomes == {"ok", "none", "invalid"}

\* how long one docker stats call takes, in half-minutes
StatsDelays == {0, 1}

\* line 108: no end_time when the duration is None or 0
EndTime(duration, now) ==
    IF duration = NaN \/ duration = 0 THEN NaN ELSE now + duration + DurationBuffer

InitMonitor ==
    /\ pc = "monitor_project"
    /\ clock = 0
    /\ monitor = NoMonitor
    /\ \E du \in Durations :
          poll = [NoPoll EXCEPT !.stage = "top", !.duration = du, !.end_time = EndTime(du, 0)]
    /\ jtl = NoJtl /\ opts = NoOpts /\ mem = NoMem /\ lat = NoLat /\ latByMode = <<>>
    /\ outExists = FALSE /\ observed = NoSeen /\ frame = NoFrame
    /\ y = <<>> /\ mk = NoMK /\ series = NoSeries
    /\ runs = <<>> /\ idx = 0 /\ rows = <<>> /\ outFile = <<>>

\* the top of the loop: leave it at the end time; else list the containers,
\* and sleep when there is none, or take the timestamp of the iteration
MonitorListContainers ==
    /\ pc = "monitor_project"
    /\ poll.stage = "top"
    /\ IF poll.end_time # NaN /\ clock >= poll.end_time
       THEN poll' = [poll EXCEPT !.stage = "stopped"] /\ UNCHANGED clock
       ELSE /\ clock < MaxClock
            /\ \E listed \in Listings :
                  IF listed = <<>>
                  THEN /\ poll' = [poll EXCEPT !.listed = Append(@, listed), !.read = Append(@, <<>>)]
                       /\ clock' = clock + DEFAULT_INTERVAL
                  ELSE /\ poll' = [poll EXCEPT !.stage = "stats", !.timestamp = clock,
                                               !.todo = listed, !.total_mem = 0,
                                               !.listed = Append(@, listed), !.read = Append(@, <<>>)]
                       /\ UNCHANGED clock
    /\ UNCHANGED <<pc, y, mk, monitor, jtl, opts, mem, lat, latByMode, series, runs, idx, rows,
                   outFile, outExists, observed, frame>>

\* the body of the for loop for the next container: no stats, no row; stats,
\* a scope="container" row and the total grows; fields that float() rejects,
\* a ValueError that nothing catches (the finally clause closes the file)
MonitorReadStats ==
    /\ pc = "monitor_project"
    /\ poll.stage = "stats"
    /\ poll.todo # <<>>
    /\ \E out \in StatsOutcomes, d \in StatsDelays :
          LET c == Head(poll.todo)
              it == Len(poll.listed)
          IN  /\ clock' = clock + d
              /\ CASE out = "ok" ->
                        /\ monitor' = [monitor EXCEPT !.rows =
                                         Append(@, MonRow(poll.timestamp, "container", c, Reading[c]))]
                        /\ poll' = [poll EXCEPT !.todo = Tail(@), !.total_mem = @ + Reading[c],
                                                !.read[it] = Append(@, c),
                                                !.rowIter = Append(@, it),
                                                !.rowAt = Append(@, clock')]
                   [] out = "none" ->
                        /\ poll' = [poll EXCEPT !.todo = Tail(@)]
                        /\ UNCHANGED monitor
                   [] out = "invalid" ->
                        /\ poll' = [poll EXCEPT !.stage = "crashed"]
                        /\ UNCHANGED monitor
    /\ UNCHANGED <<pc, y, mk, jtl, opts, mem, lat, latByMode, series, runs, idx, rows,
                   outFile, outExists, observed, frame>>

\* after the for loop: the scope="project" row with the total, flush, sleep
MonitorWriteProject ==
    /\ pc = "monitor_project"
    /\ poll.stage = "stats"
    /\ poll.todo = <<>>
    /\ monitor' = [monitor EXCEPT !.rows =
                     Append(@, MonRow(poll.timestamp, "project", "ALL", poll.total_mem))]
    /\ poll' = [poll EXCEPT !.stage = "top", !.rowIter = Append(@, Len(poll.listed)),
                            !.rowAt = Append(@, clock)]
    /\ clock' = clock + DEFAULT_INTERVAL
    /\ UNCHANGED <<pc, y, mk, jtl, opts, mem, lat, latByMode, series, runs, idx, rows,
                   outFile, outExists, observed, frame>>

NextMonitor == MonitorListContainers \/ MonitorReadStats \/ MonitorWriteProject

SpecMonitor == InitMonitor /\ [][NextMonitor]_vars

\* the rows iteration i appended, and the scope="project" rows among them
RowsOfIteration(i) == {k \in DOMAIN monitor.rows : poll.rowIter[k] = i}

ProjectRowsOfIteration(i) == {k \in RowsOfIteration(i) : monitor.rows[k].scope = "project"}

\* iteration i left no row when it listed no container; else exactly one
\* scope="project" row named ALL, after its scope="container" rows, with
\* their timestamp, holding the sum over the containers whose stats it read
IterationAsClaimed(i) ==
    IF poll.listed[i] = <<>> THEN RowsOfIteration(i) = {}
    ELSE /\ Cardinality(ProjectRowsOfIteration(i)) = 1
         /\ \A p \in ProjectRowsOfIteration(i) :
               /\ monitor.rows[p].container_name = "ALL"
               /\ monitor.rows[p].memory_mib =
                     SumSeq([j \in DOMAIN poll.read[i] |-> Reading[poll.read[i][j]]])
               /\ \A k \in RowsOfIteration(i) :
                     /\ k <= p
                     /\ monitor.rows[k].timestamp = monitor.rows[p].timestamp
               /\ [j \in 1..(Cardinality(RowsOfIteration(i)) - 1) |->
                     monitor.rows[p - Cardinality(RowsOfIteration(i)) + j].container_name]
                  = poll.read[i]

\* no iteration is under way
BetweenIterations == poll.stage \in {"top", "stopped", "crashed"}

\* C14 as stated: every iteration of monitor_project that listed a container
\* appended exactly one scope="project" row after its scope="container"
\* rows, with their timestamp and the sum over the containers it read; an
\* iteration that listed none appended nothing; and with a duration given no
\* row is appended once the clock has reached start + duration + 60 s.
C14_ProjectRowPerIteration ==
    /\ BetweenIterations => \A i \in DOMAIN poll.listed : IterationAsClaimed(i)
    /\ poll.duration # NaN =>
          \A k \in DOMAIN poll.rowAt : poll.rowAt[k] < poll.duration + DurationBuffer

\* the rows of the iterations that ran to their end are as C14 says
C14_ProjectRowUnlessCrashed ==
    BetweenIterations =>
        \A i \in DOMAIN poll.listed :
            (poll.stage = "crashed" /\ i = Len(poll.listed)) \/ IterationAsClaimed(i)

\* with an end time, no iteration starts at or after it
C14_NoIterationFromEndTime ==
    poll.end_time # NaN =>
        \A k \in DOMAIN monitor.rows : monitor.rows[k].timestamp < poll.end_time

====
